---- MODULE Spec2Model ----
(***************************************************************************)
(* atlite/resource.py: wind turbine and solar panel resource models.      *)
(*                                                                         *)
(* Python dicts are heap objects with identity (a sequence of records,    *)
(* the index is the object's identity); numpy arrays are never written in *)
(* place by this file and are modelled as values.                         *)
(*                                                                         *)
(* Floating point numbers are fixed point integers:                       *)
(*   velocities  in 1/VU m/s   (every grid point is an integer),          *)
(*   power       in 1/PU kW,                                              *)
(*   eta, Delta_v, sigma in 1/CU (0.95 is 95, 1.27 m/s is 127),           *)
(*   kernel densities in 1/KS per m/s, exp() in 1/ES.                     *)
(* Every division rounds to minus infinity, so a negative number never    *)
(* rounds to zero.                                                        *)
(***************************************************************************)
EXTENDS Integers, Sequences, FiniteSets, TLC

\* Grid points on each side of 0 in velocities_reg.  np.linspace(-50., 50.,
\* 1001) has 500; the model bounds the resolution of the regular grid.
GridHalf == 50

\* Fixed point resolutions.
PU == 1000
KS == 1000
ES == 32768

\* np.linspace(-50., 50., 1001): the regular grid spans [-RegMax, RegMax] m/s.
RegMax == 50
\* np.linspace(0., 35., 72): the output grid.
OutMax == 35
NOut == 72
\* Centi-units of the smoothing parameters and their defaults.
CU == 100
DefaultEta == 95
DefaultDelta_v == 127
DefaultSigma == 229
\* 1e-2 kW, the oversmoothing threshold, is 1/OversmoothDiv kW.
OversmoothDiv == 100

NReg == 2 * GridHalf + 1
VU == (NOut - 1) * GridHalf

(***************************************************************************)
(* Arithmetic helpers.                                                    *)
(***************************************************************************)
\* floor(a * b / c) for c > 0 and 0 <= b <= c without leaving 32 bits.
MulDiv(a, b, c) == (a \div c) * b + ((a % c) * b) \div c

RECURSIVE isqrt_iter(_, _)
isqrt_iter(n, r) ==
    LET r2 == (r + n \div r) \div 2
    IN  IF r2 >= r THEN r ELSE isqrt_iter(n, r2)

\* np.sqrt on a non-negative fixed point number: floor of the square root.
sqrt(n) == IF n < 2 THEN n ELSE isqrt_iter(n, n)

RECURSIVE square_times(_, _)
square_times(t, n) ==
    IF n = 0 THEN t ELSE square_times((t * t + ES \div 2) \div ES, n - 1)

\* np.exp(-a/b) in 1/ES, for a >= 0 and b > 0: with y = (a/b)/256,
\* (1 - y + y^2/2)^256.  Beyond a/b = 256 the result is below every
\* representable number and is 0.
exp_neg(a, b) ==
    IF a \div b >= 256 THEN 0
    ELSE LET y  == (a \div b) * (ES \div 256) + ((a % b) * (ES \div 256)) \div b
             t0 == ES - y + (y * y) \div (2 * ES)
         IN  square_times(t0, 8)

RECURSIVE MaxOf(_, _, _)
MaxOf(s, lo, hi) ==
    IF lo = hi THEN s[lo]
    ELSE LET mid == (lo + hi) \div 2
             a == MaxOf(s, lo, mid)
             b == MaxOf(s, mid + 1, hi)
         IN  IF a >= b THEN a ELSE b

\* np.max of a non-empty sequence
SeqMax(s) == MaxOf(s, 1, Len(s))

\* a lazily defined sequence made a tuple, so each element is computed once
Array(f, n) == SubSeq(f, 1, n)

(***************************************************************************)
(* numpy                                                                  *)
(***************************************************************************)
\* np.linspace(lo, hi, n), n >= 2
linspace(lo, hi, n) == [i \in 1..n |-> lo + ((i - 1) * (hi - lo)) \div (n - 1)]

\* largest j in lo..hi with xp[j] <= x, for xp ascending and xp[lo] <= x
RECURSIVE bracket(_, _, _, _)
bracket(xp, x, lo, hi) ==
    IF lo = hi THEN lo
    ELSE LET mid == (lo + hi + 1) \div 2
         IN  IF xp[mid] <= x THEN bracket(xp, x, mid, hi)
             ELSE bracket(xp, x, lo, mid - 1)

\* np.interp(x, xp, fp) for one x: linear between the sample points, and
\* fp[0] left of xp[0], fp[-1] right of xp[-1] (numpy's default left/right).
interp1(x, xp, fp) ==
    LET n == Len(xp)
    IN  IF x < xp[1] THEN fp[1]
        ELSE IF x >= xp[n] THEN fp[n]
        ELSE LET j == bracket(xp, x, 1, n)
             IN  IF x = xp[j] THEN fp[j]
                 ELSE fp[j] + MulDiv(fp[j + 1] - fp[j], x - xp[j],
                                     xp[j + 1] - xp[j])

\* np.interp(xs, xp, fp)
interp(xs, xp, fp) == [i \in 1..Len(xs) |-> interp1(xs[i], xp, fp)]

(***************************************************************************)
(* scipy.signal.fftconvolve(in1, in2, mode='same')                        *)
(***************************************************************************)
RECURSIVE strip(_, _)
strip(n, p) == IF n % p = 0 THEN strip(n \div p, p) ELSE n

RECURSIVE next_fast_len(_)
\* the smallest length >= n whose only prime factors are 2, 3 and 5
next_fast_len(n) ==
    IF strip(strip(strip(n, 2), 3), 5) = 1 THEN n ELSE next_fast_len(n + 1)

\* A faulty variant of fft_length: the transform as long as the input, so
\* that the product of the transforms is the circular convolution.
fft_length_unpadded(s1, s2) == IF s1 > s2 THEN s1 ELSE s2

\* Both inputs are zero-padded to this length before the transforms: it is
\* at least the length s1 + s2 - 1 of the full linear convolution.
fft_length(s1, s2) == next_fast_len(s1 + s2 - 1)

RECURSIVE circular(_, _, _, _, _, _)
\* The product of the two transforms, transformed back, is the circular
\* convolution of the padded inputs at length L: at index m (from 0) the sum
\* over j of in1[j] * in2[(m - j) mod L], here for lo <= j + 1 <= hi.  The
\* padding of in1 contributes only zero terms, which the sum leaves out.
circular(in1, in2, L, m, lo, hi) ==
    IF lo = hi
    THEN LET t == (m - (lo - 1)) % L
         IN  IF t < Len(in2) THEN in1[lo] * in2[t + 1] ELSE 0
    ELSE LET mid == (lo + hi) \div 2
         IN  circular(in1, in2, L, m, lo, mid)
               + circular(in1, in2, L, m, mid + 1, hi)

\* mode='same' keeps the s1 central values of the first s1 + s2 - 1
\* (_centered: from index (s2 - 1) // 2 on).
\* The transforms are computed in floating point: where in1 is not all zero
\* the result differs from the exact sum by a round-off whose sign the build
\* decides (roundoff, in units of the last place).
fftconvolve(in1, in2, roundoff) ==
    LET s1 == Len(in1)
        s2 == Len(in2)
        L == fft_length(s1, s2)
        start == (s2 - 1) \div 2
        nonzero == \E j \in 1..s1 : in1[j] # 0
        error == IF nonzero THEN roundoff ELSE 0
    IN  [i \in 1..s1 |-> circular(in1, in2, L, i - 1 + start, 1, s1) + error]

(***************************************************************************)
(* windturbine_smooth: kernel and smooth (the pure part)                  *)
(***************************************************************************)
velocities_reg == linspace(-RegMax * VU, RegMax * VU, NReg)
\* A faulty variant of velocities_new: np.linspace(..., endpoint=False).
velocities_new_open == [i \in 1..NOut |-> ((i - 1) * OutMax * VU) \div NOut]

velocities_new == linspace(0, OutMax * VU, NOut)

\* kernel(v_0): 1/sqrt(2 pi sigma^2) * exp(-(v_0 - Delta_v)^2 / (2 sigma^2)),
\* v_0 in 1/VU m/s, the result in 1/KS per m/s.
kernel(v_0, Delta_v, sigma) ==
    LET d == (v_0 * CU) \div VU - Delta_v
        s == sqrt(MulDiv(sigma * sigma, 6283, 1000))
        e == exp_neg(d * d, 2 * sigma * sigma)
    IN  (((e * KS) \div s) * CU) \div ES

\* 0.1 * fftconvolve(power_reg, kernel_reg, mode='same'): 0.1 m/s is the
\* increment of the source's grid, RegMax/GridHalf m/s that of the model's.
convolve(power_reg, kernel_reg, roundoff) ==
    LET raw == fftconvolve(power_reg, kernel_reg, roundoff)
    IN  [i \in 1..Len(power_reg) |-> MulDiv(raw[i], RegMax, KS * GridHalf)]

\* line 160: the power curve on the regular grid
regrid(velocities, power) ==
    Array(interp(velocities_reg, velocities, power), NReg)

\* line 163: kernel(velocities_reg)
kernel_on_grid(Delta_v, sigma) ==
    Array([i \in 1..NReg |-> kernel(velocities_reg[i], Delta_v, sigma)], NReg)

\* lines 169-172: eta * np.interp(velocities_new, velocities_reg,
\* convolution).  np.interp reads convolution only at the grid points that
\* bracket the output grid (lo..hi); only those are evaluated.
downsample(convolution, eta) ==
    LET lo == bracket(velocities_reg, velocities_new[1], 1, NReg)
        top == bracket(velocities_reg, velocities_new[NOut], 1, NReg)
        hi == IF top < NReg THEN top + 1 ELSE NReg
        window == Array([j \in 1..(hi - lo + 1) |-> convolution[lo + j - 1]],
                        hi - lo + 1)
        grid == SubSeq(velocities_reg, lo, hi)
        power_new == [i \in 1..NOut |->
                        (eta * interp1(velocities_new[i], grid, window))
                            \div CU]
    IN  <<velocities_new, Array(power_new, NOut)>>

\* smooth(velocities, power) with the closure's eta, Delta_v and sigma
smooth(velocities, power, eta, Delta_v, sigma, roundoff) ==
    downsample(convolve(regrid(velocities, power),
                        kernel_on_grid(Delta_v, sigma), roundoff),
               eta)

(***************************************************************************)
(* State                                                                  *)
(***************************************************************************)
VARIABLES
    turbines,   \* the turbine config dicts returned to the caller
    paramobjs,  \* the params dicts: [1] is the default of the def statement
    filled,     \* the params dicts some call has applied setdefault to
    panels,     \* the solar panel config dicts returned to the caller
    call,       \* the last call: its arguments, its outcome, what it logged
    trial       \* one application of smooth(): its arguments and its result

vars == <<turbines, paramobjs, filled, panels, call, trial>>

\* Bounds of the heaps.
MaxTurbines == 3
MaxParamObjs == 2

\* arguments that are not a heap object
Omitted == 0
NotADict == -1

NoCall ==
    [op |-> "none", arg |-> 0, params |-> Omitted, passed |-> <<>>,
     used |-> 0, reused |-> FALSE, ret |-> 0, value |-> 0,
     outcome |-> "returned", logged |-> <<>>]

NoTrial ==
    [done |-> FALSE, pass |-> 0, velocities |-> <<>>, power |-> <<>>,
     eta |-> 0, Delta_v |-> 0, sigma |-> 0, roundoff |-> 0, out |-> <<>>]

\* dict.setdefault(k, v) as the dict afterwards, and dict.get(k, v)
setdefault(d, k, v) == IF k \in DOMAIN d THEN d ELSE d @@ (k :> v)
get(d, k, v) == IF k \in DOMAIN d THEN d[k] ELSE v

(***************************************************************************)
(* What the loader collaborators hand back (yaml.safe_load of a turbine   *)
(* file, download_turbineconf): a dict, or None.                          *)
(***************************************************************************)
MS(v) == v * VU
KW(p) == p * PU

NotFound == [found |-> FALSE, conf |-> <<>>]

TurbineConfs ==
    { [found |-> TRUE,
       conf |-> [V |-> <<MS(0), MS(5), MS(10), MS(15), MS(20), MS(25)>>,
                 POW |-> <<KW(0), KW(0), KW(100), KW(400), KW(800), KW(800)>>,
                 HUB_HEIGHT |-> 80]],
      \* V and POW of different lengths
      [found |-> TRUE,
       conf |-> [V |-> <<MS(0), MS(5), MS(10)>>,
                 POW |-> <<KW(0), KW(100)>>,
                 HUB_HEIGHT |-> 80]],
      \* an empty power curve
      [found |-> TRUE,
       conf |-> [V |-> <<MS(0), MS(5)>>, POW |-> <<>>, HUB_HEIGHT |-> 80]],
      \* a key missing
      [found |-> TRUE,
       conf |-> [V |-> <<MS(0), MS(5)>>, POW |-> <<KW(0), KW(100)>>]],
      \* no matching turbine
      NotFound }

\* the forms of the argument 'turbine' of get_windturbineconfig
TurbineArgs ==
    {"str", "str_oedb", "dict_nosource", "dict_oedb", "dict_local",
     "dict_other", "neither"}

\* the loader is asked for a config only when the argument names a source
Loadable(turbine) ==
    IF turbine \in {"dict_other", "neither"} THEN {NotFound} ELSE TurbineConfs

\* the dict literals a caller passes as params
CallerDicts ==
    { ("sigma" :> 1500),
      ("eta" :> 100 @@ "Delta_v" :> 0 @@ "sigma" :> 100) }

\* the round-off of one FFT convolution, in units of the last place
Roundoffs == {-1, 0, 1}

(***************************************************************************)
(* get_windturbineconfig                                                  *)
(***************************************************************************)
\* lines 57-85 as the outcome of the call: the config dict, or the exception
get_windturbineconfig(turbine, loaded) ==
    LET source == CASE turbine = "str" -> "local"
                    [] turbine = "str_oedb" -> "oedb"
                    [] turbine \in {"dict_nosource", "dict_oedb"} -> "oedb"
                    [] turbine = "dict_local" -> "local"
                    [] turbine = "dict_other" -> "other"
                    [] OTHER -> "none"
        logged == IF turbine = "dict_nosource" THEN <<"no source">> ELSE <<>>
        conf == loaded.conf
    IN  IF source = "other"
        THEN [outcome |-> "ValueError", logged |-> logged, config |-> <<>>]
        ELSE IF source = "local" /\ ~loaded.found   \* open() of the file
        THEN [outcome |-> "IOError", logged |-> logged, config |-> <<>>]
        ELSE IF source = "none" \/ ~loaded.found
        THEN [outcome |-> "ValueError", logged |-> logged, config |-> <<>>]
        ELSE IF ~({"V", "POW", "HUB_HEIGHT"} \subseteq DOMAIN conf)
        THEN [outcome |-> "KeyError", logged |-> logged, config |-> <<>>]
        ELSE IF Len(conf.POW) = 0   \* np.max of an empty sequence
        THEN [outcome |-> "ValueError", logged |-> logged, config |-> <<>>]
        ELSE [outcome |-> "returned", logged |-> logged,
              config |-> [V |-> conf.V, POW |-> conf.POW,
                          hub_height |-> conf.HUB_HEIGHT,
                          P |-> SeqMax(conf.POW)]]

GetWindTurbineConfig(turbine, loaded) ==
    LET r == get_windturbineconfig(turbine, loaded)
    IN  /\ r.outcome = "returned" => Len(turbines) < MaxTurbines
        /\ turbines' = IF r.outcome = "returned"
                       THEN Append(turbines, r.config) ELSE turbines
        /\ call' = [NoCall EXCEPT !.op = "get_windturbineconfig",
                                  !.outcome = r.outcome,
                                  !.logged = r.logged,
                                  !.ret = IF r.outcome = "returned"
                                          THEN Len(turbines) + 1 ELSE 0]
        /\ UNCHANGED <<paramobjs, filled, panels, trial>>

(***************************************************************************)
(* windturbine_rated_capacity_per_unit                                    *)
(***************************************************************************)
windturbine_rated_capacity_per_unit(turbine) == turbine["P"]

RatedCapacity(t) ==
    /\ t \in 1..Len(turbines)
    /\ call' = [NoCall EXCEPT !.op = "windturbine_rated_capacity_per_unit",
                              !.arg = t,
                              !.value = windturbine_rated_capacity_per_unit(
                                            turbines[t])]
    /\ UNCHANGED <<turbines, paramobjs, filled, panels, trial>>

\* the argument is a str: the config is loaded first
RatedCapacityByName(turbine, loaded) ==
    LET r == get_windturbineconfig(turbine, loaded)
    IN  /\ call' = [NoCall EXCEPT !.op = "windturbine_rated_capacity_per_unit",
                                  !.outcome = r.outcome,
                                  !.logged = r.logged,
                                  !.passed = r.config,
                                  !.value =
                                      IF r.outcome = "returned"
                                      THEN windturbine_rated_capacity_per_unit(
                                               r.config)
                                      ELSE 0]
        /\ UNCHANGED <<turbines, paramobjs, filled, panels, trial>>

(***************************************************************************)
(* windturbine_smooth                                                     *)
(***************************************************************************)
\* lines 148-150: the params dict after the three setdefault calls
fill_defaults(params) ==
    setdefault(setdefault(setdefault(params, "eta", DefaultEta),
                          "Delta_v", DefaultDelta_v),
               "sigma", DefaultSigma)

\* np.interp raises ValueError for sample arrays that are empty or differ
\* in length
interp_raises(xp, fp) == Len(xp) = 0 \/ Len(xp) # Len(fp)

\* smooth() is a pure function, and the model evaluates it once for each
\* argument it can meet up to the second smoothing of a loaded curve:
\* SmoothTable1 on the curves a loader hands back, SmoothTable2 on the
\* smoothed curves.  Any other argument is evaluated in place.  (@@ makes a
\* table an explicit function: its values are computed once.)
LoadedCurves ==
    { <<c.conf.V, c.conf.POW>> :
        c \in { x \in TurbineConfs :
                  /\ x.found
                  /\ {"V", "POW", "HUB_HEIGHT"} \subseteq DOMAIN x.conf
                  /\ Len(x.conf.POW) > 0
                  /\ ~interp_raises(x.conf.V, x.conf.POW) } }

ParamValues == { fill_defaults(d) : d \in CallerDicts \cup {<<>>} }

SmoothTable1 ==
    [k \in LoadedCurves \X ParamValues \X Roundoffs |->
        smooth(k[1][1], k[1][2], k[2]["eta"], k[2]["Delta_v"], k[2]["sigma"],
               k[3])] @@ <<>>

Range(f) == { f[x] : x \in DOMAIN f }

SmoothTable2 ==
    [k \in (Range(SmoothTable1) \ LoadedCurves)
             \X ParamValues \X Roundoffs |->
        smooth(k[1][1], k[1][2], k[2]["eta"], k[2]["Delta_v"], k[2]["sigma"],
               k[3])] @@ <<>>

lookup(table1, table2, k, otherwise) ==
    IF k \in DOMAIN table1 THEN table1[k]
    ELSE IF k \in DOMAIN table2 THEN table2[k]
    ELSE otherwise

\* line 175: smooth(turbine['V'], turbine['POW'])
smooth_call(velocities, power, params, roundoff) ==
    lookup(SmoothTable1, SmoothTable2,
           << <<velocities, power>>, params, roundoff >>,
           smooth(velocities, power, params["eta"], params["Delta_v"],
                  params["sigma"], roundoff))

\* A faulty variant of dict_copy: the function works on the caller's dict.
dict_alias(heap, t) == [id |-> t, items |-> heap[t]]

\* line 174: turbine.copy() is a new dict with the same items
dict_copy(heap, t) == [id |-> Len(heap) + 1, items |-> heap[t]]

\* A faulty variant of assign_curve: P keeps the value of the input curve.
assign_curve_stale_P(turbine, sm) ==
    [turbine EXCEPT !["V"] = sm[1], !["POW"] = sm[2]]

\* lines 175-176 on the dict the function works on: V and POW are replaced
\* by the two arrays smooth() returned, P by the maximum of the new POW
assign_curve(turbine, sm) ==
    [turbine EXCEPT !["V"] = sm[1], !["POW"] = sm[2], !["P"] = SeqMax(sm[2])]

smoothed_config(turbine, params, roundoff) ==
    assign_curve(turbine,
                 smooth_call(turbine["V"], turbine["POW"], params, roundoff))

\* A faulty variant of oversmoothing: the threshold 1 in place of 1e-2.
oversmoothing_above_one(turbine) ==
    \E i \in 1..Len(turbine["V"]) :
        turbine["V"][i] = 0 /\ turbine["POW"][i] > PU

\* line 178: any(turbine['POW'][np.where(turbine['V'] == 0.0)] > 1e-2)
oversmoothing(turbine) ==
    \E i \in 1..Len(turbine["V"]) :
        turbine["V"][i] = 0 /\ turbine["POW"][i] * OversmoothDiv > PU

\* lines 178-182: the warning and the return of the dict 'new', which sits
\* at 'id' in the heap
smooth_return(heap, id, new, params) ==
    [params |-> params, outcome |-> "returned", ret |-> id,
     heap |-> IF id > Len(heap) THEN Append(heap, new)
              ELSE [heap EXCEPT ![id] = new],
     logged |-> IF oversmoothing(new) THEN <<"oversmoothing">> ELSE <<>>]

\* The whole call on the heap of turbine dicts, the dict t of it and the
\* params dict 'params' (after line 146): what becomes of params and of the
\* heap, the outcome, the dict returned, the log.  An exception leaves the
\* copy unreachable.
windturbine_smooth(heap, t, params, roundoff) ==
    IF interp_raises(heap[t]["V"], heap[t]["POW"])
    THEN [params |-> fill_defaults(params), outcome |-> "ValueError",
          ret |-> 0, heap |-> heap, logged |-> <<>>]
    ELSE smooth_return(heap, dict_copy(heap, t).id,
                       smoothed_config(dict_copy(heap, t).items,
                                       fill_defaults(params), roundoff),
                       fill_defaults(params))

\* the effect of a call that ran as r on the state
SmoothEffect(t, pa, used, passed, r) ==
    /\ paramobjs' = IF used = 0 THEN paramobjs
                    ELSE IF used > Len(paramobjs)
                    THEN Append(paramobjs, r.params)
                    ELSE [paramobjs EXCEPT ![used] = r.params]
    /\ filled' = IF used = 0 THEN filled ELSE filled \cup {used}
    /\ turbines' = r.heap
    /\ call' = [NoCall EXCEPT !.op = "windturbine_smooth",
                              !.arg = t,
                              !.params = pa,
                              !.passed = passed,
                              !.used = used,
                              !.reused = used \in filled,
                              !.outcome = r.outcome,
                              !.ret = r.ret,
                              !.logged = r.logged]
    /\ UNCHANGED <<panels, trial>>

\* the object line 148 works on
params_object(pa) ==
    IF pa = Omitted THEN 1 ELSE IF pa = NotADict THEN 0 ELSE pa

\* params as the caller passes it: omitted (the default object of the def
\* statement, paramobjs[1]), something that is not a dict (line 146 makes a
\* new dict, which is dropped on return), or a dict of the caller's (pa, its
\* identity).
Smooth(t, pa, roundoff) ==
    /\ t \in 1..Len(turbines)
    /\ Len(turbines) < MaxTurbines
    /\ pa \in {Omitted, NotADict} \cup 2..Len(paramobjs)
    /\ SmoothEffect(t, pa, params_object(pa),
                    IF params_object(pa) = 0 THEN <<>>
                    ELSE paramobjs[params_object(pa)],
                    windturbine_smooth(turbines, t,
                        IF params_object(pa) = 0 THEN <<>>
                        ELSE paramobjs[params_object(pa)],
                        roundoff))

\* the caller passes a dict it has just built
SmoothWith(t, d, roundoff) ==
    /\ t \in 1..Len(turbines)
    /\ Len(turbines) < MaxTurbines
    /\ Len(paramobjs) < MaxParamObjs
    /\ SmoothEffect(t, Len(paramobjs) + 1, Len(paramobjs) + 1, d,
                    windturbine_smooth(turbines, t, d, roundoff))

(***************************************************************************)
(* Solar panels                                                           *)
(***************************************************************************)
\* efficiency, A, B, C and the capacity in 1/SU
SU == 1000000
\* np.log(1000.) in 1/SU
Ln1000 == 6907755

MaxPanels == 2

\* what yaml.safe_load hands back for a panel file, or no such file
NoPanel == [found |-> FALSE, conf |-> <<>>]

PanelConfs ==
    { [found |-> TRUE, conf |-> ("model" :> "huld" @@ "efficiency" :> e)] :
        e \in {0, 100000} }
    \cup
    { [found |-> TRUE,
       conf |-> ("model" :> "bofinger" @@ "A" :> a @@ "B" :> b @@ "C" :> c)] :
        a \in {0, 100000}, b \in {0, 500}, c \in {-100, 100} }
    \cup
    { [found |-> TRUE, conf |-> ("efficiency" :> 100000)],
      [found |-> TRUE, conf |-> ("model" :> "other" @@ "efficiency" :> 100000)],
      [found |-> TRUE,
       conf |-> ("model" :> "other" @@ "A" :> 0 @@ "B" :> 500 @@ "C" :> 100)],
      [found |-> TRUE, conf |-> ("model" :> "huld")],
      [found |-> TRUE, conf |-> ("model" :> "bofinger" @@ "A" :> 0 @@ "B" :> 500)],
      NoPanel }

\* lines 87-97: the dict of the file as it is, or the exception of open()
get_solarpanelconfig(loaded) ==
    IF loaded.found
    THEN [outcome |-> "returned", config |-> loaded.conf]
    ELSE [outcome |-> "IOError", config |-> <<>>]

\* A faulty variant of solarpanel_rated_capacity_per_unit: the factor 1e3 of
\* the bofinger capacity left out.
solarpanel_rated_capacity_unscaled(panel) ==
    IF get(panel, "model", "huld") = "huld"
    THEN IF "efficiency" \in DOMAIN panel
         THEN [outcome |-> "returned", value |-> panel["efficiency"]]
         ELSE [outcome |-> "KeyError", value |-> 0]
    ELSE IF panel["model"] = "bofinger"
    THEN IF {"A", "B", "C"} \subseteq DOMAIN panel
         THEN [outcome |-> "returned",
               value |-> panel["A"] + panel["B"] * 1000
                         + (panel["C"] * Ln1000) \div SU]
         ELSE [outcome |-> "KeyError", value |-> 0]
    ELSE [outcome |-> "returned None", value |-> 0]

\* lines 105-112 on a panel dict: the value returned (outcome "returned"),
\* the end of the function reached without a return statement (outcome
\* "returned None"), or the exception
solarpanel_rated_capacity_per_unit(panel) ==
    IF get(panel, "model", "huld") = "huld"
    THEN IF "efficiency" \in DOMAIN panel
         THEN [outcome |-> "returned", value |-> panel["efficiency"]]
         ELSE [outcome |-> "KeyError", value |-> 0]
    ELSE IF panel["model"] = "bofinger"
    THEN IF {"A", "B", "C"} \subseteq DOMAIN panel
         THEN [outcome |-> "returned",
               value |-> (panel["A"] + panel["B"] * 1000
                          + (panel["C"] * Ln1000) \div SU) * 1000]
         ELSE [outcome |-> "KeyError", value |-> 0]
    ELSE [outcome |-> "returned None", value |-> 0]

GetSolarPanelConfig(loaded) ==
    /\ loaded.found => Len(panels) < MaxPanels
    /\ panels' = IF loaded.found
                 THEN Append(panels, get_solarpanelconfig(loaded).config)
                 ELSE panels
    /\ call' = [NoCall EXCEPT !.op = "get_solarpanelconfig",
                              !.outcome = get_solarpanelconfig(loaded).outcome,
                              !.ret = IF loaded.found THEN Len(panels) + 1
                                      ELSE 0]
    /\ UNCHANGED <<turbines, paramobjs, filled, trial>>

\* the record of a call on the panel dict 'panel' that ran as r
solar_call(p, panel, r) ==
    [NoCall EXCEPT !.op = "solarpanel_rated_capacity_per_unit",
                   !.arg = p,
                   !.passed = panel,
                   !.outcome = r.outcome,
                   !.value = r.value]

SolarRatedCapacity(p) ==
    /\ p \in 1..Len(panels)
    /\ call' = solar_call(p, panels[p],
                          solarpanel_rated_capacity_per_unit(panels[p]))
    /\ UNCHANGED <<turbines, paramobjs, filled, panels, trial>>

\* the argument is a str: the config is loaded first
SolarRatedCapacityByName(loaded) ==
    /\ call' = IF loaded.found
               THEN solar_call(0, loaded.conf,
                               solarpanel_rated_capacity_per_unit(loaded.conf))
               ELSE [NoCall EXCEPT !.op = "solarpanel_rated_capacity_per_unit",
                                   !.outcome = "IOError"]
    /\ UNCHANGED <<turbines, paramobjs, filled, panels, trial>>

(***************************************************************************)
(* smooth() on its own: one curve, one parameter set, one round-off       *)
(***************************************************************************)
Curves ==
    { << <<MS(0), MS(5), MS(10), MS(15), MS(20), MS(25)>>,
         <<KW(0), KW(0), KW(100), KW(400), KW(800), KW(800)>> >>,
      << <<MS(0), MS(10), MS(20)>>, <<KW(50), KW(500), KW(0)>> >>,
      << <<MS(0), MS(10)>>, <<KW(0), KW(0)>> >> }

Etas == {95, 100}
Delta_vs == {0, 127}
Sigmas == {100, 229, 1500}

\* how often a result is passed to smooth() again
MaxPasses == 2

ApplySmooth ==
    /\ ~trial.done
    /\ trial' = [trial EXCEPT
                    !.done = TRUE,
                    !.out = smooth(trial.velocities, trial.power, trial.eta,
                                   trial.Delta_v, trial.sigma, trial.roundoff)]
    /\ UNCHANGED <<turbines, paramobjs, filled, panels, call>>

Repass ==
    /\ trial.done
    /\ trial.pass < MaxPasses
    /\ trial' = [trial EXCEPT !.done = FALSE, !.pass = @ + 1,
                              !.velocities = trial.out[1],
                              !.power = trial.out[2],
                              !.out = <<>>]
    /\ UNCHANGED <<turbines, paramobjs, filled, panels, call>>

Init ==
    /\ turbines = <<>>
    /\ paramobjs = << <<>> >>
    /\ filled = {}
    /\ panels = <<>>
    /\ call = NoCall
    /\ trial = NoTrial

Next ==
    \/ \E turbine \in TurbineArgs : \E loaded \in Loadable(turbine) :
           GetWindTurbineConfig(turbine, loaded)
    \/ \E t \in 1..MaxTurbines : RatedCapacity(t)
    \/ \E turbine \in {"str", "str_oedb"}, loaded \in TurbineConfs :
           RatedCapacityByName(turbine, loaded)
    \/ \E t \in 1..MaxTurbines, pa \in -1..MaxParamObjs, roundoff \in Roundoffs :
           Smooth(t, pa, roundoff)
    \/ \E t \in 1..MaxTurbines, d \in CallerDicts, roundoff \in Roundoffs :
           SmoothWith(t, d, roundoff)

Spec == Init /\ [][Next]_vars

NextSolar ==
    \/ \E loaded \in PanelConfs : GetSolarPanelConfig(loaded)
    \/ \E p \in 1..MaxPanels : SolarRatedCapacity(p)
    \/ \E loaded \in PanelConfs : SolarRatedCapacityByName(loaded)

SpecSolar == Init /\ [][NextSolar]_vars

InitSmooth ==
    /\ turbines = <<>>
    /\ paramobjs = << <<>> >>
    /\ filled = {}
    /\ panels = <<>>
    /\ call = NoCall
    /\ \E c \in Curves, eta \in Etas, Delta_v \in Delta_vs, sigma \in Sigmas,
          roundoff \in Roundoffs :
           trial = [NoTrial EXCEPT !.velocities = c[1], !.power = c[2],
                                   !.eta = eta, !.Delta_v = Delta_v,
                                   !.sigma = sigma, !.roundoff = roundoff]

NextSmooth == ApplySmooth \/ Repass

SpecSmooth == InitSmooth /\ [][NextSmooth]_vars

(***************************************************************************)
(* Properties                                                             *)
(***************************************************************************)
IsMaxOf(p, s) ==
    /\ \E i \in 1..Len(s) : s[i] = p
    /\ \A i \in 1..Len(s) : s[i] <= p

\* C1: the rated power P of every turbine config that get_windturbineconfig
\* or windturbine_smooth has produced is the maximum of the POW of that
\* config, and windturbine_rated_capacity_per_unit returns that maximum.
C1_RatedPowerIsMaxPOW ==
    /\ \A t \in 1..Len(turbines) :
           IsMaxOf(turbines[t]["P"], turbines[t]["POW"])
    /\ (call.op = "windturbine_rated_capacity_per_unit"
            /\ call.outcome = "returned") =>
           IsMaxOf(call.value,
                   IF call.arg > 0 THEN turbines[call.arg]["POW"]
                   ELSE call.passed["POW"])

\* the rated capacity of a smoothed config, which differs from that of the
\* loaded one
C1_Witness ==
    /\ call.op = "windturbine_rated_capacity_per_unit"
    /\ call.arg > 1
    /\ Len(turbines[call.arg]["V"]) = NOut
    /\ call.value > 0
    /\ call.value # turbines[1]["P"]

\* C2: solarpanel_rated_capacity_per_unit on a panel config whose model tag
\* is neither 'huld' nor 'bofinger', or which has no model tag, fails with
\* UnsupportedModelError.
C2_UnsupportedModelFails ==
    (/\ call.op = "solarpanel_rated_capacity_per_unit"
     /\ call.outcome # "IOError"
     /\ get(call.passed, "model", "none") \notin {"huld", "bofinger"}) =>
        call.outcome = "UnsupportedModelError"

\* C3: a call of windturbine_smooth leaves every turbine config that existed
\* before it as it was; the config it returns is a new one, whose hub_height
\* is that of the config passed in.
C3_SmoothLeavesInput ==
    [][call'.op = "windturbine_smooth" =>
          /\ \A t \in 1..Len(turbines) :
                 t \in DOMAIN turbines' /\ turbines'[t] = turbines[t]
          /\ call'.outcome = "returned" =>
                 /\ call'.ret > Len(turbines)
                 /\ call'.ret \in DOMAIN turbines'
                 /\ turbines'[call'.ret]["hub_height"]
                        = turbines[call'.arg]["hub_height"]]_vars

\* a call that returned a config with another power curve than its input's
C3_Witness ==
    /\ call.op = "windturbine_smooth"
    /\ call.outcome = "returned"
    /\ call.ret # call.arg
    /\ turbines[call.ret]["POW"] # turbines[call.arg]["POW"]
    /\ turbines[call.ret]["hub_height"] = 80

\* C4: windturbine_smooth leaves the params dict of the caller as it was
\* passed, and a call made without params does not work on a dict that an
\* earlier call has filled.
C4_ParamsNeverSharedOrChanged ==
    call.op = "windturbine_smooth" =>
        /\ call.params \notin {Omitted, NotADict} =>
               paramobjs[call.used] = call.passed
        /\ call.params = Omitted => ~call.reused

ValidCurve(c) ==
    /\ Len(c["V"]) = 72
    /\ c["V"][1] = 0
    /\ c["V"][72] = MS(35)
    /\ \A i \in 1..71 : c["V"][i] < c["V"][i + 1]
    /\ Len(c["POW"]) = Len(c["V"])

\* C5: the config windturbine_smooth returns has 72 velocities, from 0 to
\* 35 m/s, strictly ascending, and as many powers; and a call on such a
\* config returns.
C5_OutputIsValidConfig ==
    call.op = "windturbine_smooth" =>
        /\ call.outcome = "returned" => ValidCurve(turbines[call.ret])
        /\ ValidCurve(turbines[call.arg]) => call.outcome = "returned"

\* the output of one call smoothed again
C5_Witness ==
    /\ call.op = "windturbine_smooth"
    /\ call.outcome = "returned"
    /\ call.arg > 1
    /\ ValidCurve(turbines[call.arg])
    /\ turbines[call.ret]["POW"] # turbines[call.arg]["POW"]

\* C6: for a power curve that is >= 0 everywhere, eta in (0, 1] and
\* sigma > 0, every value of the smoothed power curve is >= 0.
C6_SmoothedPowerNonNegative ==
    (/\ trial.done
     /\ \A i \in 1..Len(trial.power) : trial.power[i] >= 0
     /\ trial.eta > 0 /\ trial.eta <= CU
     /\ trial.sigma > 0) =>
        \A i \in 1..Len(trial.out[2]) : trial.out[2][i] >= 0

PowerAtZeroExceeds(c) ==
    \E i \in 1..Len(c["V"]) : c["V"][i] = 0 /\ c["POW"][i] * 100 > KW(1)

C8_SolarRatedCapacity ==
    (call.op = "solarpanel_rated_capacity_per_unit"
        /\ "model" \in DOMAIN call.passed) =>
        /\ (call.passed["model"] = "huld"
                /\ "efficiency" \in DOMAIN call.passed) =>
               /\ call.outcome = "returned"
               /\ call.value = call.passed["efficiency"]
        /\ (call.passed["model"] = "bofinger"
                /\ {"A", "B", "C"} \subseteq DOMAIN call.passed) =>
               /\ call.outcome = "returned"
               /\ call.value
                      = (call.passed["A"] + 1000 * call.passed["B"]
                         + (Ln1000 * call.passed["C"]) \div SU) * 1000
        /\ call.arg > 0 => panels[call.arg] = call.passed

\* the capacity of a bofinger panel with A > 0 and C < 0
C8_Witness ==
    /\ call.op = "solarpanel_rated_capacity_per_unit"
    /\ call.arg > 0
    /\ get(call.passed, "model", "none") = "bofinger"
    /\ call.outcome = "returned"
    /\ call.passed["A"] > 0
    /\ call.passed["B"] > 0
    /\ call.passed["C"] < 0

\* C9: get_windturbineconfig returns no config whose V and POW differ in
\* length or whose POW is empty, so that windturbine_smooth and
\* windturbine_rated_capacity_per_unit are not called on one.
C9_InvalidConfigRejected ==
    /\ \A t \in 1..Len(turbines) :
           /\ Len(turbines[t]["V"]) = Len(turbines[t]["POW"])
           /\ Len(turbines[t]["POW"]) > 0
    /\ (call.op \in {"windturbine_smooth",
                     "windturbine_rated_capacity_per_unit"}
            /\ call.arg > 0) =>
           Len(turbines[call.arg]["V"]) = Len(turbines[call.arg]["POW"])

RECURSIVE reference_sum(_, _, _, _, _, _)
\* The reference of C10.  The sum over j of p[j] * k[i - j + centre], the
\* terms whose index is outside the grid counting as 0.
reference_sum(p, k, i, centre, lo, hi) ==
    IF lo = hi
    THEN IF i - lo + centre \in 1..Len(k) THEN p[lo] * k[i - lo + centre]
         ELSE 0
    ELSE reference_sum(p, k, i, centre, lo, (lo + hi) \div 2)
         + reference_sum(p, k, i, centre, (lo + hi) \div 2 + 1, hi)

\* spacing times the sum, at every point of the regular grid
reference_convolution(p, k) ==
    Array([i \in 1..NReg |->
              MulDiv(reference_sum(p, k, i, (NReg + 1) \div 2, 1, NReg),
                     RegMax, KS * GridHalf)], NReg)

\* eta times the linear interpolation onto the output grid
reference_downsample(convolution, eta) ==
    Array([i \in 1..72 |->
              (eta * interp1(((i - 1) * MS(35)) \div 71, velocities_reg,
                             convolution)) \div CU], 72)

reference_smooth(velocities, power, eta, Delta_v, sigma) ==
    reference_downsample(
        reference_convolution(regrid(velocities, power),
                              kernel_on_grid(Delta_v, sigma)),
        eta)

within_roundoff(out, reference, roundoff) ==
    \A i \in 1..72 :
        /\ out[i] - reference[i] \in -1..1
        /\ roundoff = 0 => out[i] = reference[i]

\* C10: the smoothed curve is eta times the interpolation onto the output
\* grid of the linear 'same' convolution, on the regular grid, of the input
\* curve (interpolated, clamped outside its range) with the kernel: equal
\* to it where the transform is exact, and within one unit of the last
\* place of it otherwise.
C10_SmoothIsLinearConvolution ==
    trial.done =>
        /\ Len(trial.out[2]) = 72
        /\ within_roundoff(trial.out[2],
                           reference_smooth(trial.velocities, trial.power,
                                            trial.eta, trial.Delta_v,
                                            trial.sigma),
                           trial.roundoff)

\* a curve with power at velocity 0 under the widest kernel, where a
\* circular convolution would carry power over from the far end of the grid
C10_Witness ==
    /\ trial.done
    /\ trial.pass = 0
    /\ trial.power[1] > 0
    /\ trial.sigma = 1500
    /\ trial.roundoff # 0
    /\ \E i \in 1..72 : trial.out[2][i] > 0
====
